---- MODULE Spec2Model ----
(***************************************************************************)
(* uv_manager.py: the retrying command executor (run_command), the         *)
(* interrupt flag, the virtual-environment manager (create_venv,           *)
(* verify_venv) and the dependency installer (install_dependencies,        *)
(* install_editable), as one sequential program whose signal handler and   *)
(* whose environment (file system, external processes) act between its     *)
(* steps.                                                                  *)
(***************************************************************************)
EXTENDS Integers, Sequences, FiniteSets, TLC

(* ------------------------------------------------------------------ *)
(* Program constants (uv_manager.py:39-41) and the bounds of the model *)
(* ------------------------------------------------------------------ *)
DEFAULT_TIMEOUT == 300
MAX_RETRIES == 3
RETRY_DELAY == 5
INSTALL_TIMEOUT == 600
PROBE_TIMEOUT == 10

\* largest retry count a caller passes to create_venv / run_command
MaxRetries == 3

\* --retries is parsed with type=int and is not validated: zero and
\* negative values reach create_venv
RetryArgs == (0 - 1) .. MaxRetries

\* retry bounds of a well-formed CommandSpec
RetryBounds == 1 .. MaxRetries

VARIABLES
    INTERRUPTED,   \* the module-level flag
    uv_on_path,    \* shutil.which("uv") is not None
    env,           \* the file system at the environment path
    op,            \* the operation in progress and its arguments
    opPc,          \* where that operation stands
    opResult,      \* what it returned
    rc,            \* the frame of run_command
    vf,            \* the frame of verify_venv
    events,        \* what the current run_command call has done, in order
    hist,          \* what the current operation has called and spawned
    cache,         \* the file system under CACHE_DIR
    walk,          \* the frame of the directory traversal in progress
    cleaning       \* the frame of clean_cache

cacheVars == <<cache, walk, cleaning>>

vars == <<INTERRUPTED, uv_on_path, env, op, opPc, opResult, rc, vf, events, hist,
          cache, walk, cleaning>>

(* ------------------------------------------------------------------ *)
(* The environment                                                     *)
(* ------------------------------------------------------------------ *)
EntryKinds == {"missing", "dir", "file"}

\* the directory at the path and its bin/python and bin/pip entries;
\* without the directory there are no entries
EnvStates ==
    {e \in [exists : BOOLEAN, python_bin : EntryKinds, pip_bin : EntryKinds] :
        ~e.exists => (e.python_bin = "missing" /\ e.pip_bin = "missing")}

\* how one external command invocation can end
AttemptOutcomes == {"ok", "nonzero", "timeout", "error"}

\* how the version probe can end
ProbeOutcomes == {"zero", "nonzero", "timeout", "raise"}

(* ------------------------------------------------------------------ *)
(* run_command                                                         *)
(* ------------------------------------------------------------------ *)
IdleRc ==
    [pc |-> "idle", command |-> <<>>, capture_output |-> TRUE,
     timeout |-> DEFAULT_TIMEOUT, retries |-> MAX_RETRIES,
     check_interruption |-> TRUE, attempt |-> 0, result |-> "unset",
     stdout |-> ""]

\* the frame on entry: attempt = 0
EnterRunCommand(command, capture_output, timeout, retries, check_interruption) ==
    [pc |-> "loop", command |-> command, capture_output |-> capture_output,
     timeout |-> timeout, retries |-> retries,
     check_interruption |-> check_interruption, attempt |-> 0,
     result |-> "unset", stdout |-> ""]

Event(kind, n, outcome) == [kind |-> kind, n |-> n, outcome |-> outcome]

LoopContinuesOffByOne(attempt, retries) == attempt <= retries

\* while attempt < retries
LoopContinues(attempt, retries) == attempt < retries

AbortsNever(check_interruption, interrupted) == FALSE

\* if check_interruption and INTERRUPTED
Aborts(check_interruption, interrupted) == check_interruption /\ interrupted

ExceptClauseRetriesAll(outcome) ==
    CASE outcome = "timeout" -> "TimeoutExpired"
      [] outcome = "nonzero" -> "CalledProcessError"
      [] outcome = "error" -> "CalledProcessError"
      [] OTHER -> "none"

\* the except clause that handles an attempt's failure
ExceptClause(outcome) ==
    CASE outcome = "timeout" -> "TimeoutExpired"
      [] outcome = "nonzero" -> "CalledProcessError"
      [] outcome = "error" -> "Exception"
      [] OTHER -> "none"

AttemptsRemainOffByOne(attempt, retries) == attempt <= retries

\* if attempt < retries (in both retrying clauses)
AttemptsRemain(attempt, retries) == attempt < retries

\* time.sleep(RETRY_DELAY)
SleepDelay(attempt) == RETRY_DELAY

SuccessValueAlwaysTrue(capture_output) == "True"

\* return result.stdout.strip() / return True
SuccessValue(capture_output) == IF capture_output THEN "stdout" ELSE "True"

VersionCommand == <<"uv", "--version">>

\* what "uv --version" may print
Versions == {"uv 0.1", "uv 0.2"}

\* the text a successful captured run can hand back (result.stdout.strip());
\* nothing is captured in streamed mode
Outputs(command, capture_output) ==
    IF ~capture_output THEN {""}
    ELSE IF command = VersionCommand THEN Versions
    ELSE {"text"}

\* the loop head: leave the loop, abort on the flag, or start an attempt
RunLoopHead ==
    /\ rc.pc = "loop"
    /\ IF ~LoopContinues(rc.attempt, rc.retries)
       THEN /\ rc' = [rc EXCEPT !.pc = "done", !.result = "None"]
            /\ UNCHANGED <<events, hist>>
       ELSE IF Aborts(rc.check_interruption, INTERRUPTED)
       THEN /\ rc' = [rc EXCEPT !.pc = "done", !.result = "None"]
            /\ events' = Append(events, Event("abort", rc.attempt, "none"))
            /\ UNCHANGED hist
       ELSE /\ rc' = [rc EXCEPT !.pc = "running", !.attempt = rc.attempt + 1]
            /\ events' = Append(events, Event("start", rc.attempt + 1, "none"))
            /\ hist' = [hist EXCEPT !.spawned = hist.spawned + 1]
    /\ UNCHANGED <<INTERRUPTED, uv_on_path, env, op, opPc, opResult, vf, cacheVars>>

\* subprocess.run returns or raises
RunAttemptEnds ==
    /\ rc.pc = "running"
    /\ \E outcome \in AttemptOutcomes :
        /\ events' = Append(events, Event("end", rc.attempt, outcome))
        /\ LET clause == ExceptClause(outcome) IN
           CASE outcome = "ok" ->
                  \E text \in Outputs(rc.command, rc.capture_output) :
                      rc' = [rc EXCEPT !.pc = "done",
                                       !.result = SuccessValue(rc.capture_output),
                                       !.stdout = text]
             [] outcome # "ok" /\ clause \in {"TimeoutExpired", "CalledProcessError"} ->
                  IF AttemptsRemain(rc.attempt, rc.retries)
                  THEN rc' = [rc EXCEPT !.pc = "sleeping"]
                  ELSE rc' = [rc EXCEPT !.pc = "done", !.result = "None"]
             [] outcome # "ok" /\ clause = "Exception" ->
                  rc' = [rc EXCEPT !.pc = "done", !.result = "None"]
             [] OTHER ->
                  rc' = [rc EXCEPT !.pc = "done", !.result = "raised"]
    /\ UNCHANGED <<INTERRUPTED, uv_on_path, env, op, opPc, opResult, vf, hist, cacheVars>>

RunSleepEndsRestarts ==
    /\ rc.pc = "sleeping"
    /\ rc' = [rc EXCEPT !.pc = "loop", !.attempt = 0]
    /\ events' = Append(events, Event("sleep", SleepDelay(rc.attempt), "none"))
    /\ UNCHANGED <<INTERRUPTED, uv_on_path, env, op, opPc, opResult, vf, hist, cacheVars>>

\* time.sleep returns; back to the loop head
RunSleepEnds ==
    /\ rc.pc = "sleeping"
    /\ rc' = [rc EXCEPT !.pc = "loop"]
    /\ events' = Append(events, Event("sleep", SleepDelay(rc.attempt), "none"))
    /\ UNCHANGED <<INTERRUPTED, uv_on_path, env, op, opPc, opResult, vf, hist, cacheVars>>

(* ------------------------------------------------------------------ *)
(* verify_venv                                                         *)
(* ------------------------------------------------------------------ *)
IdleVf ==
    [pc |-> "idle", python_seen |-> "unchecked", pip_seen |-> "unchecked",
     probe |-> "none", probes |-> 0, timeout |-> PROBE_TIMEOUT,
     result |-> "unset"]

EnterVerifyHonoursFlag ==
    IF INTERRUPTED
    THEN [IdleVf EXCEPT !.pc = "done", !.result = "False"]
    ELSE [IdleVf EXCEPT !.pc = "check_python"]

\* verify_venv(path) on entry: the flag is not read
EnterVerify == [IdleVf EXCEPT !.pc = "check_python"]

IsRegularFileExistsOnly(kind) == kind # "missing"

\* os.path.exists(p) and os.path.isfile(p)
IsRegularFile(kind) == kind = "file"

\* returncode 0 is the only success; a non-zero exit, TimeoutExpired and
\* any other exception give False
ProbeVerdict(outcome) == IF outcome = "zero" THEN "True" ELSE "False"

\* the test on bin/python
VerifyCheckPython ==
    /\ vf.pc = "check_python"
    /\ IF IsRegularFile(env.python_bin)
       THEN vf' = [vf EXCEPT !.pc = "check_pip", !.python_seen = env.python_bin]
       ELSE vf' = [vf EXCEPT !.pc = "done", !.python_seen = env.python_bin,
                             !.result = "False"]
    /\ UNCHANGED <<INTERRUPTED, uv_on_path, env, op, opPc, opResult, rc, events, hist, cacheVars>>

\* the test on bin/pip; when it passes the probe is started
VerifyCheckPip ==
    /\ vf.pc = "check_pip"
    /\ IF IsRegularFile(env.pip_bin)
       THEN /\ vf' = [vf EXCEPT !.pc = "probing", !.pip_seen = env.pip_bin,
                                !.probes = vf.probes + 1]
            /\ hist' = [hist EXCEPT !.spawned = hist.spawned + 1]
       ELSE /\ vf' = [vf EXCEPT !.pc = "done", !.pip_seen = env.pip_bin,
                                !.result = "False"]
            /\ UNCHANGED hist
    /\ UNCHANGED <<INTERRUPTED, uv_on_path, env, op, opPc, opResult, rc, events, cacheVars>>

\* subprocess.run([python_bin, "--version"], timeout=10) returns or raises
VerifyProbeEnds ==
    /\ vf.pc = "probing"
    /\ \E outcome \in ProbeOutcomes :
        vf' = [vf EXCEPT !.pc = "done", !.probe = outcome,
                         !.result = ProbeVerdict(outcome)]
    /\ UNCHANGED <<INTERRUPTED, uv_on_path, env, op, opPc, opResult, rc, events, hist, cacheVars>>

(* ------------------------------------------------------------------ *)
(* signal_handler, and the world outside the program                   *)
(* ------------------------------------------------------------------ *)
signal_handler_kills ==
    /\ INTERRUPTED' = TRUE
    /\ events' = IF ~INTERRUPTED /\ rc.pc # "idle"
                 THEN Append(events, Event("signal", rc.attempt, "none"))
                 ELSE events
    /\ rc' = IF rc.pc = "running"
             THEN [rc EXCEPT !.pc = "done", !.result = "None"]
             ELSE rc
    /\ UNCHANGED <<uv_on_path, env, op, opPc, opResult, vf, hist, cacheVars>>

\* SIGINT / SIGTERM delivered: the handler runs between any two steps
signal_handler ==
    /\ INTERRUPTED' = TRUE
    /\ events' = IF ~INTERRUPTED /\ rc.pc # "idle"
                 THEN Append(events, Event("signal", rc.attempt, "none"))
                 ELSE events
    /\ UNCHANGED <<uv_on_path, env, op, opPc, opResult, rc, vf, hist, cacheVars>>

\* the environment directory is written by others (the tool, the user)
EnvChange ==
    /\ \E e \in EnvStates : e # env /\ env' = e
    /\ UNCHANGED <<INTERRUPTED, uv_on_path, op, opPc, opResult, rc, vf, events, hist, cacheVars>>

\* uv appears on / disappears from the search path (the installer, the
\* user): at any time
PathChange ==
    /\ uv_on_path' = ~uv_on_path
    /\ UNCHANGED <<INTERRUPTED, env, op, opPc, opResult, rc, vf, events, hist, cacheVars>>

(* ------------------------------------------------------------------ *)
(* Operations                                                          *)
(* ------------------------------------------------------------------ *)
NoOp ==
    [name |-> "none", retries |-> MAX_RETRIES, python_version |-> "",
     requirements_file |-> "", package_list |-> <<>>, dev |-> FALSE,
     parallel |-> TRUE, project_path |-> "",
     site |-> "none", version |-> "None", current_version |-> "None",
     delegated |-> FALSE]

\* spawned: external processes started; executes: run_command calls;
\* verifies: verify_venv calls; which: what each is_uv_installed() saw;
\* commands: the command of each run_command call; path_seen: what
\* create_venv's os.path.exists(path) after a failed creation saw;
\* installer: what the run of the installation script returned
NoHist ==
    [spawned |-> 0, executes |-> 0, verifies |-> 0, which |-> <<>>,
     commands |-> <<>>, path_seen |-> "unchecked", installer |-> "unrun"]

\* a direct call of run_command with a well-formed CommandSpec
ExecuteCall ==
    /\ opPc = "idle"
    /\ \E retries \in RetryBounds, capture_output \in BOOLEAN,
          check_interruption \in BOOLEAN :
        /\ op' = [NoOp EXCEPT !.name = "run_command", !.retries = retries]
        /\ rc' = EnterRunCommand(<<"cmd">>, capture_output, DEFAULT_TIMEOUT,
                                 retries, check_interruption)
    /\ opPc' = "run"
    /\ opResult' = "unset"
    /\ events' = <<>>
    /\ hist' = [NoHist EXCEPT !.executes = 1]
    /\ UNCHANGED <<INTERRUPTED, uv_on_path, env, vf, cacheVars>>

ExecuteReturn ==
    /\ op.name = "run_command" /\ opPc = "run" /\ rc.pc = "done"
    /\ opPc' = "done"
    /\ opResult' = rc.result
    /\ UNCHANGED <<INTERRUPTED, uv_on_path, env, op, rc, vf, events, hist, cacheVars>>

\* a direct call of verify_venv
VerifyCall ==
    /\ opPc = "idle"
    /\ op' = [NoOp EXCEPT !.name = "verify_venv"]
    /\ opPc' = "verify"
    /\ opResult' = "unset"
    /\ vf' = EnterVerify
    /\ events' = <<>>
    /\ hist' = [NoHist EXCEPT !.verifies = 1]
    /\ UNCHANGED <<INTERRUPTED, uv_on_path, env, rc, cacheVars>>

VerifyReturn ==
    /\ op.name = "verify_venv" /\ opPc = "verify" /\ vf.pc = "done"
    /\ opPc' = "done"
    /\ opResult' = vf.result
    /\ UNCHANGED <<INTERRUPTED, uv_on_path, env, op, rc, vf, events, hist, cacheVars>>

\* what a caller of run_command makes of its return value
FromRun(result) ==
    CASE result = "None" -> "False"
      [] result = "raised" -> "raised"
      [] OTHER -> "True"

(* install_dependencies *)
PackageLists == {<<>>, <<"pkgA">>, <<"pkgA", "pkgB">>}

RequirementsFiles == {"", "requirements.txt"}

Flag(on, text) == IF on THEN <<text>> ELSE <<>>

PipInstall == <<"bin/python", "-m", "uv", "pip", "install">>

TargetBranchPackagesFirst(requirements_file, package_list) ==
    IF package_list # <<>> THEN "packages"
    ELSE IF requirements_file # "" THEN "requirements"
    ELSE "none"

\* which branch of "Determine what to install" is taken
TargetBranch(requirements_file, package_list) ==
    IF requirements_file # "" THEN "requirements"
    ELSE IF package_list # <<>> THEN "packages"
    ELSE "none"

\* the command string, as its words
DependenciesCommand(requirements_file, package_list, dev, parallel) ==
    IF TargetBranch(requirements_file, package_list) = "requirements"
    THEN PipInstall \o <<"-r", requirements_file>> \o Flag(dev, "--dev")
            \o Flag(parallel, "--parallel")
    ELSE PipInstall \o package_list \o Flag(parallel, "--parallel")

RefusesNever(verified) == FALSE

\* if not verify_venv(venv_path): ... return False
Refuses(verified) == verified # "True"

install_dependencies_call ==
    /\ opPc = "idle"
    /\ \E requirements_file \in RequirementsFiles, package_list \in PackageLists,
          dev \in BOOLEAN, parallel \in BOOLEAN :
        op' = [NoOp EXCEPT !.name = "install_dependencies",
                           !.requirements_file = requirements_file,
                           !.package_list = package_list,
                           !.dev = dev, !.parallel = parallel]
    /\ opPc' = "verify"
    /\ opResult' = "unset"
    /\ vf' = EnterVerify
    /\ rc' = IdleRc
    /\ events' = <<>>
    /\ hist' = [NoHist EXCEPT !.verifies = 1]
    /\ UNCHANGED <<INTERRUPTED, uv_on_path, env, cacheVars>>

\* after verify_venv: refuse, reject an empty target, or run the command
install_dependencies_target ==
    /\ op.name = "install_dependencies" /\ opPc = "verify" /\ vf.pc = "done"
    /\ IF Refuses(vf.result)
          \/ TargetBranch(op.requirements_file, op.package_list) = "none"
       THEN /\ opPc' = "done"
            /\ opResult' = "False"
            /\ UNCHANGED <<rc, hist>>
       ELSE /\ opPc' = "run"
            /\ rc' = EnterRunCommand(
                        DependenciesCommand(op.requirements_file, op.package_list,
                                            op.dev, op.parallel),
                        FALSE, INSTALL_TIMEOUT, MAX_RETRIES, TRUE)
            /\ hist' = [hist EXCEPT !.executes = hist.executes + 1]
            /\ UNCHANGED opResult
    /\ UNCHANGED <<INTERRUPTED, uv_on_path, env, op, vf, events, cacheVars>>

install_dependencies_return_clears ==
    /\ op.name = "install_dependencies" /\ opPc = "run" /\ rc.pc = "done"
    /\ opPc' = "done"
    /\ opResult' = IF rc.result = "None" THEN "False" ELSE "True"
    /\ INTERRUPTED' = FALSE
    /\ UNCHANGED <<uv_on_path, env, op, rc, vf, events, hist, cacheVars>>

install_dependencies_return ==
    /\ op.name = "install_dependencies" /\ opPc = "run" /\ rc.pc = "done"
    /\ opPc' = "done"
    /\ opResult' = FromRun(rc.result)
    /\ UNCHANGED <<INTERRUPTED, uv_on_path, env, op, rc, vf, events, hist, cacheVars>>

(* install_editable *)
EditableCommand(project_path, parallel) ==
    PipInstall \o <<"-e", project_path>> \o Flag(parallel, "--parallel")

install_editable_call ==
    /\ opPc = "idle"
    /\ \E parallel \in BOOLEAN :
        op' = [NoOp EXCEPT !.name = "install_editable",
                           !.project_path = "project", !.parallel = parallel]
    /\ opPc' = "verify"
    /\ opResult' = "unset"
    /\ vf' = EnterVerify
    /\ rc' = IdleRc
    /\ events' = <<>>
    /\ hist' = [NoHist EXCEPT !.verifies = 1]
    /\ UNCHANGED <<INTERRUPTED, uv_on_path, env, cacheVars>>

install_editable_command ==
    /\ op.name = "install_editable" /\ opPc = "verify" /\ vf.pc = "done"
    /\ IF Refuses(vf.result)
       THEN /\ opPc' = "done"
            /\ opResult' = "False"
            /\ UNCHANGED <<rc, hist>>
       ELSE /\ opPc' = "run"
            /\ rc' = EnterRunCommand(EditableCommand(op.project_path, op.parallel),
                                     FALSE, INSTALL_TIMEOUT, MAX_RETRIES, TRUE)
            /\ hist' = [hist EXCEPT !.executes = hist.executes + 1]
            /\ UNCHANGED opResult
    /\ UNCHANGED <<INTERRUPTED, uv_on_path, env, op, vf, events, cacheVars>>

install_editable_return ==
    /\ op.name = "install_editable" /\ opPc = "run" /\ rc.pc = "done"
    /\ opPc' = "done"
    /\ opResult' = FromRun(rc.result)
    /\ UNCHANGED <<INTERRUPTED, uv_on_path, env, op, rc, vf, events, hist, cacheVars>>

(* create_venv *)
PythonVersions == {"", "3.11"}

VenvCommand(python_version) ==
    <<"uv", "venv", "path">>
        \o (IF python_version # "" THEN <<"--python", python_version>> ELSE <<>>)

is_uv_installed_always == TRUE

\* shutil.which("uv") is not None
is_uv_installed == uv_on_path

\* create-venv path [--python V] [--retries N]
create_venv_call ==
    /\ opPc = "idle"
    /\ \E retries \in RetryArgs, python_version \in PythonVersions :
        /\ op' = [NoOp EXCEPT !.name = "create_venv", !.retries = retries,
                              !.python_version = python_version]
        /\ IF ~is_uv_installed
           THEN /\ opPc' = "done"
                /\ opResult' = "False"
                /\ rc' = IdleRc
                /\ hist' = [NoHist EXCEPT !.which = <<uv_on_path>>]
           ELSE /\ opPc' = "run"
                /\ opResult' = "unset"
                /\ rc' = EnterRunCommand(VenvCommand(python_version), FALSE,
                                         DEFAULT_TIMEOUT, retries, TRUE)
                /\ hist' = [NoHist EXCEPT !.executes = 1,
                                          !.which = <<uv_on_path>>,
                                          !.commands = <<VenvCommand(python_version)>>]
    /\ vf' = IdleVf
    /\ events' = <<>>
    /\ UNCHANGED <<INTERRUPTED, uv_on_path, env, cacheVars>>

PartialExistsNever(exists) == FALSE

\* if os.path.exists(path), after a failed creation
PartialExists(exists) == exists

CreateVerdictTrustsCommand(created, verified) ==
    IF created THEN "True" ELSE verified

\* both verify_venv branches return what verify_venv returned
CreateVerdict(created, verified) == verified

\* after run_command: verify the created or the partial environment
create_venv_result ==
    /\ op.name = "create_venv" /\ opPc = "run" /\ rc.pc = "done"
    /\ IF rc.result = "raised"
       THEN /\ opPc' = "done"
            /\ opResult' = "raised"
            /\ UNCHANGED <<vf, hist>>
       ELSE IF rc.result = "None" /\ ~PartialExists(env.exists)
       THEN /\ opPc' = "done"
            /\ opResult' = "False"
            /\ hist' = [hist EXCEPT !.path_seen =
                            IF env.exists THEN "exists" ELSE "absent"]
            /\ UNCHANGED vf
       ELSE /\ opPc' = "verify"
            /\ vf' = EnterVerify
            /\ hist' = [hist EXCEPT !.verifies = hist.verifies + 1,
                                    !.path_seen =
                                        IF rc.result # "None" THEN "unchecked"
                                        ELSE IF env.exists THEN "exists"
                                        ELSE "absent"]
            /\ UNCHANGED opResult
    /\ UNCHANGED <<INTERRUPTED, uv_on_path, env, op, rc, events, cacheVars>>

create_venv_return ==
    /\ op.name = "create_venv" /\ opPc = "verify" /\ vf.pc = "done"
    /\ opPc' = "done"
    /\ opResult' = CreateVerdict(rc.result # "None", vf.result)
    /\ UNCHANGED <<INTERRUPTED, uv_on_path, env, op, rc, vf, events, hist, cacheVars>>

(* get_uv_version, as called from install_uv and update_uv *)
\* the run_command call of the operation in progress
CallRunCommand(command, capture_output) ==
    /\ rc' = EnterRunCommand(command, capture_output, DEFAULT_TIMEOUT,
                             MAX_RETRIES, TRUE)
    /\ events' = <<>>

\* if not is_uv_installed(): return None; else run "uv --version"
get_uv_version_call ==
    /\ opPc = "version_check"
    /\ IF ~is_uv_installed
       THEN /\ opPc' = "after_version"
            /\ op' = [op EXCEPT !.version = "None"]
            /\ hist' = [hist EXCEPT !.which = Append(hist.which, uv_on_path)]
            /\ UNCHANGED <<rc, events>>
       ELSE /\ opPc' = "version_run"
            /\ CallRunCommand(VersionCommand, TRUE)
            /\ hist' = [hist EXCEPT !.which = Append(hist.which, uv_on_path),
                                    !.executes = hist.executes + 1,
                                    !.commands = Append(hist.commands, VersionCommand)]
            /\ UNCHANGED op
    /\ UNCHANGED <<INTERRUPTED, uv_on_path, env, opResult, vf, cacheVars>>

\* return result
get_uv_version_return ==
    /\ opPc = "version_run" /\ rc.pc = "done"
    /\ opPc' = "after_version"
    /\ op' = [op EXCEPT !.version =
                 IF rc.result = "stdout" THEN rc.stdout ELSE "None"]
    /\ UNCHANGED <<INTERRUPTED, uv_on_path, env, opResult, rc, vf, events, hist, cacheVars>>

(* install_uv *)
InstallerCommand == <<"curl", "-sSf", "https://astral.sh/uv/install.sh", "|", "sh">>

AlreadyInstalledNever(installed) == FALSE

\* if is_uv_installed(): ... return True
AlreadyInstalled(installed) == installed

StillMissingNever(installed) == FALSE

\* if not is_uv_installed(), after the installer succeeded
StillMissing(installed) == ~installed

install_uv_call ==
    /\ opPc = "idle"
    /\ op' = [NoOp EXCEPT !.name = "install_uv"]
    /\ opPc' = "install_entry"
    /\ opResult' = "unset"
    /\ rc' = IdleRc
    /\ vf' = IdleVf
    /\ events' = <<>>
    /\ hist' = NoHist
    /\ UNCHANGED <<INTERRUPTED, uv_on_path, env, cacheVars>>

\* the presence test; the installer is run only when uv is not found
install_uv_entry ==
    /\ opPc = "install_entry"
    /\ IF AlreadyInstalled(is_uv_installed)
       THEN /\ opPc' = "version_check"
            /\ op' = [op EXCEPT !.site = "present"]
            /\ hist' = [hist EXCEPT !.which = Append(hist.which, uv_on_path)]
            /\ UNCHANGED <<rc, events>>
       ELSE /\ opPc' = "installer"
            /\ CallRunCommand(InstallerCommand, FALSE)
            /\ hist' = [hist EXCEPT !.which = Append(hist.which, uv_on_path),
                                    !.executes = hist.executes + 1,
                                    !.commands = Append(hist.commands, InstallerCommand)]
            /\ UNCHANGED op
    /\ UNCHANGED <<INTERRUPTED, uv_on_path, env, opResult, vf, cacheVars>>

\* after the installer: failure, or the presence re-check
install_uv_installed ==
    /\ opPc = "installer" /\ rc.pc = "done"
    /\ IF rc.result = "raised"
       THEN /\ opPc' = "done"
            /\ opResult' = "raised"
            /\ UNCHANGED <<op, hist>>
       ELSE IF rc.result = "None"
       THEN /\ opPc' = "done"
            /\ opResult' = "False"
            /\ hist' = [hist EXCEPT !.installer = "None"]
            /\ UNCHANGED op
       ELSE IF StillMissing(is_uv_installed)
       THEN /\ opPc' = "done"
            /\ opResult' = "False"
            /\ hist' = [hist EXCEPT !.installer = "True",
                                    !.which = Append(hist.which, uv_on_path)]
            /\ UNCHANGED op
       ELSE /\ opPc' = "version_check"
            /\ op' = [op EXCEPT !.site = "installed"]
            /\ hist' = [hist EXCEPT !.installer = "True",
                                    !.which = Append(hist.which, uv_on_path)]
            /\ UNCHANGED opResult
    /\ UNCHANGED <<INTERRUPTED, uv_on_path, env, rc, vf, events, cacheVars>>

\* the version is printed; return True
install_uv_return ==
    /\ opPc = "after_version" /\ op.site \in {"present", "installed"}
    /\ opPc' = "done"
    /\ opResult' = "True"
    /\ UNCHANGED <<INTERRUPTED, uv_on_path, env, op, rc, vf, events, hist, cacheVars>>

(* update_uv *)
UpdateVerdictNeedsChange(current_version, new_version) ==
    IF new_version = current_version THEN "False" ELSE "True"

\* both branches of the version comparison print, then return True
UpdateVerdict(current_version, new_version) == "True"

\* if not is_uv_installed(): return install_uv()
update_uv_call ==
    /\ opPc = "idle"
    /\ IF ~is_uv_installed
       THEN /\ opPc' = "install_entry"
            /\ op' = [NoOp EXCEPT !.name = "update_uv", !.delegated = TRUE]
       ELSE /\ opPc' = "version_check"
            /\ op' = [NoOp EXCEPT !.name = "update_uv", !.site = "current"]
    /\ opResult' = "unset"
    /\ rc' = IdleRc
    /\ vf' = IdleVf
    /\ events' = <<>>
    /\ hist' = [NoHist EXCEPT !.which = <<uv_on_path>>]
    /\ UNCHANGED <<INTERRUPTED, uv_on_path, env, cacheVars>>

\* current_version is kept and the installation script is run
update_uv_run ==
    /\ opPc = "after_version" /\ op.site = "current"
    /\ opPc' = "updater"
    /\ op' = [op EXCEPT !.current_version = op.version]
    /\ CallRunCommand(InstallerCommand, FALSE)
    /\ hist' = [hist EXCEPT !.executes = hist.executes + 1,
                            !.commands = Append(hist.commands, InstallerCommand)]
    /\ UNCHANGED <<INTERRUPTED, uv_on_path, env, opResult, vf, cacheVars>>

update_uv_ran ==
    /\ opPc = "updater" /\ rc.pc = "done"
    /\ IF rc.result = "raised"
       THEN /\ opPc' = "done"
            /\ opResult' = "raised"
            /\ UNCHANGED <<op, hist>>
       ELSE IF rc.result = "None"
       THEN /\ opPc' = "done"
            /\ opResult' = "False"
            /\ hist' = [hist EXCEPT !.installer = "None"]
            /\ UNCHANGED op
       ELSE /\ opPc' = "version_check"
            /\ op' = [op EXCEPT !.site = "new"]
            /\ hist' = [hist EXCEPT !.installer = "True"]
            /\ UNCHANGED opResult
    /\ UNCHANGED <<INTERRUPTED, uv_on_path, env, rc, vf, events, cacheVars>>

\* new_version is compared with current_version
update_uv_return ==
    /\ opPc = "after_version" /\ op.site = "new"
    /\ opPc' = "done"
    /\ opResult' = UpdateVerdict(op.current_version, op.version)
    /\ UNCHANGED <<INTERRUPTED, uv_on_path, env, op, rc, vf, events, hist, cacheVars>>

(* ------------------------------------------------------------------ *)
(* The cache directory                                                 *)
(* ------------------------------------------------------------------ *)

\* the largest --older-than value tried
MaxDays == 2

\* DOWNLOAD_CACHE, and a directory the wrapped tool keeps in its cache
Subdirs == {"downloads", "wheels"}

FileNames == {"lock", "old.tar", "new.tar", "pkg.whl"}

\* the directory a file lies in ("." is CACHE_DIR itself)
FileDir(f) ==
    CASE f = "lock" -> "."
      [] f = "old.tar" -> "downloads"
      [] f = "new.tar" -> "downloads"
      [] f = "pkg.whl" -> "wheels"

\* whole days between the file's modification time and now
FileAge(f) ==
    CASE f = "lock" -> 0
      [] f = "old.tar" -> 3
      [] f = "new.tar" -> 1
      [] f = "pkg.whl" -> 0

\* os.path.getsize(fp)
FileSize(f) ==
    CASE f = "lock" -> 1
      [] f = "old.tar" -> 2
      [] f = "new.tar" -> 4
      [] f = "pkg.whl" -> 8

CacheStates ==
    {c \in [root : BOOLEAN, dirs : SUBSET Subdirs, files : SUBSET FileNames] :
        /\ ~c.root => (c.dirs = {} /\ c.files = {})
        /\ \A f \in c.files : FileDir(f) = "." \/ FileDir(f) \in c.dirs}

NoCache == [root |-> FALSE, dirs |-> {}, files |-> {}]

\* os.makedirs(CACHE_DIR); os.makedirs(DOWNLOAD_CACHE) on nothing
FreshCache == [root |-> TRUE, dirs |-> {"downloads"}, files |-> {}]

\* what the import leaves: both directories exist, whatever else lies there
ImportedCaches == {c \in CacheStates : c.root /\ "downloads" \in c.dirs}

\* the order in which a listing yields names
DirOrder == <<"downloads", "wheels">>
FileOrder == <<"lock", "old.tar", "new.tar", "pkg.whl">>

InDir(f, dir) == f \in cache.files /\ FileDir(f) = dir
IsSubdir(dir) == dir \in cache.dirs

\* filenames and dirnames of one os.walk step, read when the step is taken
Filenames(dir) == SelectSeq(FileOrder, LAMBDA f : InDir(f, dir))
Dirnames(dir) == IF dir = "." THEN SelectSeq(DirOrder, IsSubdir) ELSE <<>>
DirExists(dir) == IF dir = "." THEN cache.root ELSE dir \in cache.dirs

IdleWalk ==
    [pc |-> "idle", mode |-> "none", dirs |-> <<>>, files |-> <<>>,
     total |-> 0, days |-> 0]

\* for dirpath, dirnames, filenames in os.walk(path)
EnterWalk(mode, days) ==
    [pc |-> "list", mode |-> mode, dirs |-> <<".">>, files |-> <<>>,
     total |-> 0, days |-> days]

\* the inner loop takes the next file, the outer loop the next directory
Resume(w) ==
    [w EXCEPT !.pc = IF w.files # <<>> THEN "exists"
                     ELSE IF w.dirs # <<>> THEN "list"
                     ELSE "done"]

NextFile(w) == Resume([w EXCEPT !.files = Tail(w.files)])

\* os.walk lists one directory; a directory it cannot list is passed over
WalkList ==
    /\ walk.pc = "list"
    /\ LET dir == Head(walk.dirs)
       IN walk' = Resume([walk EXCEPT
                    !.dirs = Tail(walk.dirs)
                             \o (IF DirExists(dir) THEN Dirnames(dir) ELSE <<>>),
                    !.files = IF DirExists(dir) THEN Filenames(dir) ELSE <<>>])
    /\ UNCHANGED <<INTERRUPTED, uv_on_path, env, op, opPc, opResult, rc, vf,
                   events, hist, cache, cleaning>>

\* if os.path.exists(fp)
WalkExists ==
    /\ walk.pc = "exists"
    /\ walk' = IF Head(walk.files) \in cache.files
               THEN [walk EXCEPT !.pc = "read"]
               ELSE NextFile(walk)
    /\ UNCHANGED <<INTERRUPTED, uv_on_path, env, op, opPc, opResult, rc, vf,
                   events, hist, cache, cleaning>>

\* total_size += os.path.getsize(fp): FileNotFoundError if the file is gone
SizeRead ==
    /\ walk.pc = "read" /\ walk.mode = "size"
    /\ walk' = IF Head(walk.files) \in cache.files
               THEN NextFile([walk EXCEPT !.total = @ + FileSize(Head(walk.files))])
               ELSE [walk EXCEPT !.pc = "raised"]
    /\ UNCHANGED <<INTERRUPTED, uv_on_path, env, op, opPc, opResult, rc, vf,
                   events, hist, cache, cleaning>>

\* os.path.getmtime(fp) < time.time() - older_than_days * 24 * 60 * 60
IsOlder(f, older_than_days) == FileAge(f) > older_than_days

\* os.path.getmtime(fp) < cutoff_time: FileNotFoundError if the file is gone
AgeRead ==
    /\ walk.pc = "read" /\ walk.mode = "age"
    /\ walk' = IF Head(walk.files) \notin cache.files
               THEN [walk EXCEPT !.pc = "raised"]
               ELSE IF IsOlder(Head(walk.files), walk.days)
               THEN [walk EXCEPT !.pc = "remove"]
               ELSE NextFile(walk)
    /\ UNCHANGED <<INTERRUPTED, uv_on_path, env, op, opPc, opResult, rc, vf,
                   events, hist, cache, cleaning>>

\* try: os.remove(fp) except Exception: logged, the loop goes on
AgeRemove ==
    /\ walk.pc = "remove"
    /\ \/ /\ Head(walk.files) \in cache.files
          /\ cache' = [cache EXCEPT !.files = @ \ {Head(walk.files)}]
          /\ cleaning' = [cleaning EXCEPT !.removed = @ \cup {Head(walk.files)}]
       \/ UNCHANGED <<cache, cleaning>>
    /\ walk' = NextFile(walk)
    /\ UNCHANGED <<INTERRUPTED, uv_on_path, env, op, opPc, opResult, rc, vf,
                   events, hist>>

\* another process deletes a file of the cache
CacheWriter ==
    /\ \E f \in cache.files : cache' = [cache EXCEPT !.files = @ \ {f}]
    /\ UNCHANGED <<INTERRUPTED, uv_on_path, env, op, opPc, opResult, rc, vf,
                   events, hist, walk, cleaning>>

get_directory_size_call ==
    /\ opPc = "idle"
    /\ op' = [NoOp EXCEPT !.name = "get_directory_size"]
    /\ opPc' = "size"
    /\ walk' = EnterWalk("size", 0)
    /\ UNCHANGED <<INTERRUPTED, uv_on_path, env, opResult, rc, vf, events, hist,
                   cache, cleaning>>

\* return total_size, or the exception leaves the function
get_directory_size_return ==
    /\ op.name = "get_directory_size" /\ opPc = "size"
    /\ walk.pc \in {"done", "raised"}
    /\ opPc' = "done"
    /\ opResult' = IF walk.pc = "raised" THEN "raised" ELSE "size"
    /\ UNCHANGED <<INTERRUPTED, uv_on_path, env, op, rc, vf, events, hist,
                   cacheVars>>

(* ------------------------------------------------------------------ *)
(* clean_cache                                                         *)
(* ------------------------------------------------------------------ *)

\* --older-than is an optional int: <<>> stands for None
OlderThan == {<<>>} \cup {<<d>> : d \in 0 .. MaxDays}

IdleCleaning ==
    [older_than_days |-> <<>>, before_size |-> 0, after_size |-> 0,
     wipe |-> "none", tree |-> NoCache, removed |-> {}]

\* if older_than_days: (None and 0 are both false)
AgeBounded(older_than_days) ==
    older_than_days # <<>> /\ older_than_days[1] # 0

WipeOutcomes == {"ok", "rmtree_failed", "mkroot_failed", "mkdownloads_failed"}

\* what the three calls in the try block leave behind
Wiped(outcome) ==
    CASE outcome = "ok" -> {FreshCache}
      [] outcome = "rmtree_failed" ->
            {c \in CacheStates :
                c.root /\ c.dirs \subseteq cache.dirs /\ c.files \subseteq cache.files}
      [] outcome = "mkroot_failed" -> {NoCache}
      [] outcome = "mkdownloads_failed" ->
            {[root |-> TRUE, dirs |-> {}, files |-> {}]}

WipeVerdictIgnoresFailure(outcome) == "continue"

\* except Exception as e: ... return False
WipeVerdict(outcome) == IF outcome = "ok" THEN "continue" ELSE "False"

\* clean_cache(older_than_days) up to the first measurement
clean_cache_call ==
    /\ opPc = "idle"
    /\ op' = [NoOp EXCEPT !.name = "clean_cache"]
    /\ \E older_than_days \in OlderThan :
          cleaning' = [IdleCleaning EXCEPT !.older_than_days = older_than_days,
                                           !.tree = cache]
    /\ IF ~cache.root
       THEN /\ opPc' = "done"
            /\ opResult' = "True"
            /\ UNCHANGED walk
       ELSE /\ opPc' = "before"
            /\ walk' = EnterWalk("size", 0)
            /\ UNCHANGED opResult
    /\ UNCHANGED <<INTERRUPTED, uv_on_path, env, rc, vf, events, hist, cache>>

\* before_size is known; the mode is chosen
clean_cache_mode ==
    /\ op.name = "clean_cache" /\ opPc = "before" /\ walk.pc = "done"
    /\ cleaning' = [cleaning EXCEPT !.before_size = walk.total]
    /\ IF AgeBounded(cleaning.older_than_days)
       THEN /\ opPc' = "age"
            /\ walk' = EnterWalk("age", cleaning.older_than_days[1])
       ELSE /\ opPc' = "wipe"
            /\ walk' = IdleWalk
    /\ UNCHANGED <<INTERRUPTED, uv_on_path, env, op, opResult, rc, vf, events,
                   hist, cache>>

\* shutil.rmtree(CACHE_DIR); os.makedirs(CACHE_DIR); os.makedirs(DOWNLOAD_CACHE)
clean_cache_wipe ==
    /\ op.name = "clean_cache" /\ opPc = "wipe"
    /\ \E outcome \in WipeOutcomes :
          /\ cache' \in Wiped(outcome)
          /\ cleaning' = [cleaning EXCEPT
                            !.wipe = outcome,
                            !.removed = @ \cup (cache.files \ cache'.files)]
          /\ IF WipeVerdict(outcome) = "False"
             THEN /\ opPc' = "done"
                  /\ opResult' = "False"
                  /\ UNCHANGED walk
             ELSE /\ opPc' = "after"
                  /\ walk' = EnterWalk("size", 0)
                  /\ UNCHANGED opResult
    /\ UNCHANGED <<INTERRUPTED, uv_on_path, env, op, rc, vf, events, hist>>

\* the age-bounded loop has ended
clean_cache_aged ==
    /\ op.name = "clean_cache" /\ opPc = "age" /\ walk.pc = "done"
    /\ opPc' = "after"
    /\ walk' = EnterWalk("size", 0)
    /\ UNCHANGED <<INTERRUPTED, uv_on_path, env, op, opResult, rc, vf, events,
                   hist, cache, cleaning>>

\* after_size is known: return True
clean_cache_return ==
    /\ op.name = "clean_cache" /\ opPc = "after" /\ walk.pc = "done"
    /\ cleaning' = [cleaning EXCEPT !.after_size = walk.total]
    /\ opPc' = "done"
    /\ opResult' = "True"
    /\ UNCHANGED <<INTERRUPTED, uv_on_path, env, op, rc, vf, events, hist,
                   cache, walk>>

\* an exception of a traversal is caught nowhere in clean_cache
clean_cache_raises ==
    /\ op.name = "clean_cache" /\ opPc \in {"before", "age", "after"}
    /\ walk.pc = "raised"
    /\ opPc' = "done"
    /\ opResult' = "raised"
    /\ UNCHANGED <<INTERRUPTED, uv_on_path, env, op, rc, vf, events, hist,
                   cacheVars>>

\* the operation has returned to its caller
Finish ==
    /\ opPc = "done"
    /\ opPc' = "idle"
    /\ op' = NoOp
    /\ opResult' = "unset"
    /\ rc' = IdleRc
    /\ events' = <<>>
    /\ hist' = NoHist
    /\ walk' = IdleWalk
    /\ cleaning' = IdleCleaning
    /\ UNCHANGED <<INTERRUPTED, uv_on_path, env, vf, cache>>

(* ------------------------------------------------------------------ *)
Init ==
    /\ INTERRUPTED = FALSE
    /\ uv_on_path \in BOOLEAN
    /\ env \in EnvStates
    /\ op = NoOp
    /\ opPc = "idle"
    /\ opResult = "unset"
    /\ rc = IdleRc
    /\ vf = IdleVf
    /\ events = <<>>
    /\ hist = NoHist
    /\ cache = FreshCache
    /\ walk = IdleWalk
    /\ cleaning = IdleCleaning

Next ==
    \/ signal_handler
    \/ EnvChange
    \/ PathChange
    \/ RunLoopHead
    \/ RunAttemptEnds
    \/ RunSleepEnds
    \/ ExecuteCall
    \/ ExecuteReturn
    \/ VerifyCheckPython
    \/ VerifyCheckPip
    \/ VerifyProbeEnds
    \/ VerifyCall
    \/ VerifyReturn
    \/ install_dependencies_call
    \/ install_dependencies_target
    \/ install_dependencies_return
    \/ install_editable_call
    \/ install_editable_command
    \/ install_editable_return
    \/ create_venv_call
    \/ create_venv_result
    \/ create_venv_return
    \/ get_uv_version_call
    \/ get_uv_version_return
    \/ install_uv_call
    \/ install_uv_entry
    \/ install_uv_installed
    \/ install_uv_return
    \/ update_uv_call
    \/ update_uv_run
    \/ update_uv_ran
    \/ update_uv_return
    \/ Finish

Spec == Init /\ [][Next]_vars

(* ------------------------------------------------------------------ *)
(* The cache manager on its own: it calls neither run_command nor      *)
(* verify_venv, and reads neither the flag nor the search path         *)
(* ------------------------------------------------------------------ *)
InitCache ==
    /\ INTERRUPTED = FALSE
    /\ uv_on_path = TRUE
    /\ env = [exists |-> FALSE, python_bin |-> "missing", pip_bin |-> "missing"]
    /\ op = NoOp
    /\ opPc = "idle"
    /\ opResult = "unset"
    /\ rc = IdleRc
    /\ vf = IdleVf
    /\ events = <<>>
    /\ hist = NoHist
    /\ cache \in ImportedCaches
    /\ walk = IdleWalk
    /\ cleaning = IdleCleaning

NextCache ==
    \/ CacheWriter
    \/ WalkList
    \/ WalkExists
    \/ SizeRead
    \/ AgeRead
    \/ AgeRemove
    \/ get_directory_size_call
    \/ get_directory_size_return
    \/ clean_cache_call
    \/ clean_cache_mode
    \/ clean_cache_wipe
    \/ clean_cache_aged
    \/ clean_cache_return
    \/ clean_cache_raises
    \/ Finish

SpecCache == InitCache /\ [][NextCache]_vars

(* ------------------------------------------------------------------ *)
(* run_command and its caller with a retry bound of its own, under the *)
(* scheduling the code relies on: the interpreter keeps running, every *)
(* subprocess.run ends by exit or by its timeout, time.sleep returns   *)
(* ------------------------------------------------------------------ *)
InitRun ==
    /\ INTERRUPTED = FALSE
    /\ uv_on_path = TRUE
    /\ env \in EnvStates
    /\ op = NoOp
    /\ opPc = "idle"
    /\ opResult = "unset"
    /\ rc = IdleRc
    /\ vf = IdleVf
    /\ events = <<>>
    /\ hist = NoHist
    /\ cache = FreshCache
    /\ walk = IdleWalk
    /\ cleaning = IdleCleaning

NextRun ==
    \/ signal_handler
    \/ RunLoopHead
    \/ RunAttemptEnds
    \/ RunSleepEnds
    \/ ExecuteCall
    \/ ExecuteReturn
    \/ VerifyCheckPython
    \/ VerifyCheckPip
    \/ VerifyProbeEnds
    \/ create_venv_call
    \/ create_venv_result
    \/ create_venv_return
    \/ Finish

SpecRun ==
    /\ InitRun
    /\ [][NextRun]_vars
    /\ WF_vars(RunLoopHead)
    /\ WF_vars(RunAttemptEnds)
    /\ WF_vars(RunSleepEnds)

(* ------------------------------------------------------------------ *)
(* Properties                                                          *)
(* ------------------------------------------------------------------ *)
Positions(kind) == {i \in DOMAIN events : events[i].kind = kind}

Returned == rc.pc = "done"

\* every attempt that has ended failed by a non-zero exit or a timeout
AlwaysFailed ==
    \A i \in Positions("end") : events[i].outcome \in {"nonzero", "timeout"}

\* the flag was already set when the current run_command call was entered
SetBeforeCall == INTERRUPTED /\ Positions("signal") = {}

Installers == {"install_dependencies", "install_editable"}

\* C1: a call with retries = N >= 1 whose attempts all fail by non-zero exit
\* or timeout, the flag never set, makes exactly N attempts, sleeps
\* RETRY_DELAY exactly N-1 times, each time between two consecutive attempts
\* and never after the last, and returns None.
C1_AlwaysFailingMakesNAttempts ==
    (Returned /\ rc.retries >= 1 /\ ~INTERRUPTED /\ AlwaysFailed) =>
        /\ rc.attempt = rc.retries
        /\ Cardinality(Positions("start")) = rc.retries
        /\ Cardinality(Positions("end")) = rc.retries
        /\ Cardinality(Positions("sleep")) = rc.retries - 1
        /\ \A i \in Positions("sleep") :
            /\ events[i].n = RETRY_DELAY
            /\ 1 < i /\ i < Len(events)
            /\ events[i - 1].kind = "end"
            /\ events[i + 1].kind = "start"
        /\ \A i \in Positions("end") :
            events[i].n < rc.retries =>
                (i < Len(events) /\ events[i + 1].kind = "sleep")
        /\ events[Len(events)].kind = "end"
        /\ rc.result = "None"

C1_Witness ==
    /\ Returned /\ ~INTERRUPTED /\ AlwaysFailed
    /\ rc.retries >= 2
    /\ Cardinality(Positions("sleep")) = rc.retries - 1
    /\ rc.result = "None"

\* C2: a call entered with the flag set and check_interruption on starts no
\* attempt and sleeps no delay, and returns None, whatever its retry bound
\* and command.
C2_SetBeforeCallNoAttempt ==
    (rc.pc # "idle" /\ rc.check_interruption /\ SetBeforeCall) =>
        /\ rc.attempt = 0
        /\ Positions("start") = {}
        /\ Positions("sleep") = {}
        /\ rc.pc \in {"loop", "done"}
        /\ Returned => rc.result = "None"

C2_Witness ==
    /\ Returned /\ rc.check_interruption /\ SetBeforeCall
    /\ rc.retries >= 1
    /\ Positions("abort") # {}
    /\ rc.result = "None"

\* the positions at which the flag became set while an attempt was in flight
SignalInFlight ==
    {i \in Positions("signal") : i > 1 /\ events[i - 1].kind = "start"}

\* C3: when the flag becomes set while attempt k is in flight (checking on),
\* attempt k runs to its own end; if it succeeds the call returns the success
\* value; if it fails no attempt k+1 is started and the call returns None.
C3_CooperativeCancellation ==
    \A i \in SignalInFlight :
        rc.check_interruption =>
            LET k == events[i - 1].n IN
            /\ rc.pc = "running" => (rc.attempt = k /\ i = Len(events))
            /\ rc.pc # "running" =>
                (/\ i < Len(events)
                 /\ events[i + 1].kind = "end"
                 /\ events[i + 1].n = k)
            /\ i < Len(events) =>
                /\ events[i + 1].outcome = "ok" =>
                    (Returned /\ rc.result = SuccessValue(rc.capture_output))
                /\ events[i + 1].outcome # "ok" =>
                    (/\ rc.attempt = k
                     /\ \A j \in Positions("start") : j < i
                     /\ Returned => rc.result = "None")

C3_Witness ==
    /\ Returned /\ rc.check_interruption
    /\ \E i \in SignalInFlight :
        /\ i < Len(events)
        /\ events[i + 1].outcome \in {"nonzero", "timeout"}
        /\ events[i + 1].n < rc.retries
    /\ rc.result = "None"

C5_RetryCeiling ==
    /\ rc.attempt = Cardinality(Positions("start"))
    /\ rc.attempt = 0 \/ rc.attempt <= rc.retries

C5_Witness ==
    /\ Returned
    /\ rc.retries >= 2
    /\ rc.attempt = rc.retries
    /\ \E i \in Positions("end") : events[i].outcome = "timeout"
    /\ \E i \in Positions("end") : events[i].outcome = "nonzero"

\* C6: every run_command call has a retry bound >= 1, so a call during which
\* the flag stays unset has started at least one attempt when it returns.
C6_RetryBoundAtLeastOne ==
    (Returned /\ ~INTERRUPTED) => (rc.retries >= 1 /\ rc.attempt >= 1)

\* C7: an attempt that ends in an unexpected error is the last thing the call
\* does: no later attempt, no sleep, None returned; and no exception leaves
\* run_command.
C7_UnexpectedErrorStops ==
    /\ \A i \in Positions("end") :
        events[i].outcome = "error" =>
            /\ \A j \in DOMAIN events : j > i => events[j].kind = "signal"
            /\ rc.attempt = events[i].n
            /\ Returned /\ rc.result = "None"
    /\ rc.result # "raised"
    /\ opResult # "raised"

C7_Witness ==
    /\ Returned /\ rc.result = "None"
    /\ \E i \in Positions("end") :
        events[i].outcome = "error" /\ events[i].n < rc.retries

\* C8 as stated: an installer whose verify_venv returned False returns
\* failure having started no external process and called run_command never.
C8_RefusalSpawnsNothing ==
    (op.name \in Installers /\ vf.pc = "done" /\ vf.result = "False") =>
        /\ hist.spawned = 0
        /\ hist.executes = 0
        /\ opPc = "done" => opResult = "False"

\* C8: each installer call runs verify_venv anew, and when it returns False
\* the call returns failure without calling run_command; the only external
\* process it has started is verify_venv's own version probe, if any.
C8_RefusalRunsNoCommand ==
    op.name \in Installers =>
        /\ hist.verifies = 1
        /\ vf.pc # "idle"
        /\ vf.pc # "done" => (rc.pc = "idle" /\ hist.executes = 0)
        /\ (vf.pc = "done" /\ vf.result = "False") =>
            /\ rc.pc = "idle"
            /\ hist.executes = 0
            /\ hist.spawned = vf.probes
            /\ opPc = "done" => opResult = "False"
        /\ hist.executes > 0 => (vf.pc = "done" /\ vf.result = "True")
        /\ opResult = "True" => (vf.pc = "done" /\ vf.result = "True")

C8_Witness ==
    /\ op.name \in Installers /\ opPc = "done" /\ opResult = "False"
    /\ vf.result = "False" /\ vf.probes = 1
    /\ hist.executes = 0

\* C9: install_dependencies called with neither a requirements file nor a
\* package list returns failure having started no external process, the
\* version probe included.
C9_EmptyTargetSpawnsNothing ==
    (/\ op.name = "install_dependencies"
     /\ TargetBranch(op.requirements_file, op.package_list) = "none") =>
        /\ hist.spawned = 0
        /\ opPc = "done" => opResult = "False"

\* C10: verify_venv returns True exactly when it saw bin/python and bin/pip
\* as regular files and its probe exited zero; a missing or non-regular entry
\* gives False with no probe run; a probe that exits non-zero, times out or
\* raises gives False; the probe runs at most once, with the fixed timeout.
C10_VerifyVerdict ==
    /\ vf.probes <= 1
    /\ vf.timeout = PROBE_TIMEOUT
    /\ vf.probes = 1 <=> vf.pc = "probing" \/ vf.probe # "none"
    /\ vf.pc = "done" =>
        /\ vf.result = "True" <=>
            (/\ vf.python_seen = "file"
             /\ vf.pip_seen = "file"
             /\ vf.probe = "zero")
        /\ vf.result \in {"True", "False"}
        /\ (vf.python_seen # "file" \/ vf.pip_seen # "file") =>
            (vf.probes = 0 /\ vf.result = "False")
        /\ vf.probe \in {"nonzero", "timeout", "raise"} => vf.result = "False"

C10_Witness ==
    /\ op.name = "verify_venv" /\ opPc = "done" /\ opResult = "True"
    /\ vf.probes = 1 /\ vf.probe = "zero"

\* the creation command of the current create_venv call failed
CreationFailed ==
    op.name = "create_venv" /\ Returned /\ rc.result = "None"

\* C11: create_venv returns True only after a verify_venv call that was made
\* once the creation command had finished and that returned True; a creation
\* command that succeeded followed by a False verification gives False.
C11_CreateSuccessIsVerified ==
    op.name = "create_venv" =>
        /\ vf.pc # "idle" => (Returned /\ hist.verifies = 1)
        /\ opResult = "True" =>
            (/\ Returned
             /\ hist.verifies = 1
             /\ vf.pc = "done" /\ vf.result = "True")
        /\ (opPc = "done" /\ Returned /\ rc.result # "None"
                /\ vf.result = "False") => opResult = "False"

C11_Witness ==
    /\ op.name = "create_venv" /\ opPc = "done"
    /\ rc.result = "True"
    /\ vf.pc = "done" /\ vf.result = "False"
    /\ opResult = "False"

\* C12: when the creation command fails and the path exists, create_venv
\* returns what verify_venv returns; when it fails and the path does not
\* exist, create_venv returns False and verify_venv is not run.
C12_FailedCreationFallsBack ==
    (CreationFailed /\ opPc = "done") =>
        /\ hist.path_seen \in {"exists", "absent"}
        /\ hist.path_seen = "exists" =>
            (/\ hist.verifies = 1
             /\ vf.pc = "done"
             /\ opResult = vf.result)
        /\ hist.path_seen = "absent" =>
            (/\ hist.verifies = 0
             /\ vf.pc = "idle"
             /\ hist.spawned = rc.attempt
             /\ opResult = "False")

C12_Witness ==
    /\ CreationFailed /\ opPc = "done"
    /\ rc.retries >= 2 /\ rc.attempt = rc.retries
    /\ hist.path_seen = "exists"
    /\ opResult = "True"

\* C13: with uv absent from the search path a create_venv call is one step
\* that returns False, enters neither run_command nor verify_venv, starts no
\* process and leaves the path as it was.
C13_ToolAbsentCreateDoesNothing ==
    [][(opPc = "idle" /\ op'.name = "create_venv" /\ ~uv_on_path) =>
          /\ opPc' = "done"
          /\ opResult' = "False"
          /\ rc'.pc = "idle"
          /\ vf'.pc = "idle"
          /\ hist'.spawned = 0 /\ hist'.executes = 0 /\ hist'.verifies = 0
          /\ env' = env]_vars

C13_Witness ==
    /\ op.name = "create_venv" /\ opPc = "done" /\ opResult = "False"
    /\ hist.which = <<FALSE>>
    /\ hist.spawned = 0 /\ hist.executes = 0 /\ hist.verifies = 0
    /\ env.exists

\* the install_uv call in progress, entered directly or from update_uv
InInstall == op.name = "install_uv" \/ op.delegated

\* what that call's is_uv_installed() tests have seen, in order
InstallWhich == IF op.delegated THEN Tail(hist.which) ELSE hist.which

InstallerRuns ==
    Cardinality({i \in DOMAIN hist.commands : hist.commands[i] = InstallerCommand})

\* what install_uv returns, from what it saw and what the installer returned
InstallExpected(which, installer) ==
    IF which[1] THEN "True"
    ELSE IF installer = "None" THEN "False"
    ELSE IF which[2] THEN "True"
    ELSE "False"

\* C14: an install_uv call that finds uv on the search path returns True and
\* never runs the installation script, however often it is called.
C14_InstallIdempotent ==
    (InInstall /\ InstallWhich # <<>> /\ InstallWhich[1]) =>
        /\ InstallerRuns = 0
        /\ hist.installer = "unrun"
        /\ \A i \in DOMAIN hist.commands : hist.commands[i] = VersionCommand
        /\ opResult \in {"unset", "True"}
        /\ opPc = "done" => opResult = "True"

C14_Witness ==
    /\ op.name = "install_uv" /\ opPc = "done" /\ opResult = "True"
    /\ hist.which[1]
    /\ hist.commands = <<VersionCommand>>
    /\ hist.spawned >= 1

\* the state part of C15
InstallFromAbsent ==
    (InInstall /\ InstallWhich # <<>> /\ ~InstallWhich[1]) =>
        /\ hist.commands[1] = InstallerCommand
        /\ InstallerRuns = 1
        /\ opResult = "True" =>
            (/\ hist.installer = "True"
             /\ Len(InstallWhich) >= 2
             /\ InstallWhich[2])
        /\ opPc = "done" =>
            /\ hist.installer \in {"None", "True"}
            /\ hist.installer = "None" => opResult = "False"
            /\ (hist.installer = "True" /\ ~InstallWhich[2]) =>
                (opResult = "False" /\ Len(hist.commands) = 1)

\* C15: with uv absent, install_uv returns True only if the installer
\* succeeded and the presence test made afterwards found uv; installer
\* succeeded but uv still not found gives False, and that step leaves the
\* search path as it is; installer returned None gives False.
C15_InstallNeedsToolOnPath ==
    /\ []InstallFromAbsent
    /\ [][(opPc = "installer" /\ opPc' # "installer") =>
             uv_on_path' = uv_on_path]_vars

C15_Witness ==
    /\ op.name = "install_uv" /\ opPc = "done" /\ opResult = "False"
    /\ hist.installer = "True"
    /\ hist.which = <<FALSE, FALSE>>

\* C16: update_uv with uv installed runs the installation script once and
\* returns True exactly when that run succeeded, whether or not the version
\* read afterwards equals the one read before, and False exactly when the
\* run returned None; with uv not installed it returns what install_uv
\* returns.
C16_UpdateFollowsInstaller ==
    (op.name = "update_uv" /\ opPc = "done") =>
        IF hist.which[1]
        THEN /\ ~op.delegated
             /\ InstallerRuns = 1
             /\ opResult = "True" <=> hist.installer = "True"
             /\ opResult = "False" <=> hist.installer = "None"
        ELSE /\ op.delegated
             /\ opResult = InstallExpected(InstallWhich, hist.installer)

C16_Witness ==
    /\ op.name = "update_uv" /\ opPc = "done" /\ opResult = "True"
    /\ hist.which[1]
    /\ hist.installer = "True"
    /\ op.current_version = "uv 0.1" /\ op.version = "uv 0.1"

C16_WitnessChanged ==
    /\ op.name = "update_uv" /\ opPc = "done" /\ opResult = "True"
    /\ op.current_version = "uv 0.1" /\ op.version = "uv 0.2"

Words(command) == {command[i] : i \in DOMAIN command}

\* C17: the command install_dependencies builds from a target with both a
\* requirements file and a package list names the file after -r and none of
\* the packages; the packages appear only when no requirements file is given.
C17_RequirementsFirst ==
    (op.name = "install_dependencies" /\ rc.pc # "idle") =>
        IF op.requirements_file # ""
        THEN /\ \E i \in DOMAIN rc.command :
                  /\ rc.command[i] = "-r"
                  /\ i < Len(rc.command)
                  /\ rc.command[i + 1] = op.requirements_file
             /\ Words(rc.command) \cap Words(op.package_list) = {}
        ELSE /\ op.package_list # <<>>
             /\ "-r" \notin Words(rc.command)
             /\ Words(op.package_list) \subseteq Words(rc.command)

C17_Witness ==
    /\ op.name = "install_dependencies" /\ rc.pc = "running"
    /\ op.requirements_file = "requirements.txt"
    /\ op.package_list = <<"pkgA", "pkgB">>
    /\ rc.command = PipInstall \o <<"-r", "requirements.txt">> \o <<"--dev">>

(* ------------------------------------------------------------------ *)
(* The cache manager (checked under SpecCache)                         *)

FullWipe == op.name = "clean_cache" /\ cleaning.older_than_days = <<>>

\* C18, as stated: a full wipe that returns success leaves an existing
\* empty cache root holding an empty download subdirectory, and a wipe
\* whose deleting or recreating failed returns failure.
C18_FullWipeLeavesEmptyRoot ==
    (FullWipe /\ opPc = "done") =>
        /\ opResult = "True" => cache = FreshCache
        /\ cleaning.wipe \in WipeOutcomes \ {"ok"} => opResult = "False"

\* C18, amended: clean_cache(None) called while the cache root exists
\* returns True exactly when rmtree and both makedirs succeeded, and then
\* every prior file and directory is gone and the root holds only an empty
\* download subdirectory; it returns False exactly when one of them failed;
\* it raises only before anything was deleted. Called while the cache root
\* does not exist, it returns True and creates nothing.
C18_FullWipeOfExistingRoot ==
    (FullWipe /\ opPc = "done") =>
        IF cleaning.tree.root
        THEN /\ opResult = "True" <=> cleaning.wipe = "ok"
             /\ opResult = "False" <=> cleaning.wipe \in WipeOutcomes \ {"ok"}
             /\ opResult = "raised" <=> cleaning.wipe = "none"
             /\ opResult = "True" =>
                    /\ cache = FreshCache
                    /\ cleaning.removed \subseteq cleaning.tree.files
                    /\ cleaning.after_size = 0
             /\ opResult = "raised" => cleaning.removed = {}
        ELSE /\ opResult = "True"
             /\ cleaning.wipe = "none"
             /\ cache = NoCache

C18_Witness ==
    /\ FullWipe /\ opPc = "done" /\ opResult = "True"
    /\ cleaning.tree.dirs = Subdirs
    /\ cleaning.tree.files = FileNames
    /\ cleaning.removed # {}
    /\ cleaning.wipe = "ok"
    /\ cache = FreshCache

\* the claim's reading of the option: any supplied integer selects the
\* age-bounded mode
AgeBoundedWhenSupplied(older_than_days) == older_than_days # <<>>

\* C19: whenever a number of days is supplied, clean_cache deletes only
\* files older than that many days and removes no directory of the tree.
C19_SuppliedDaysAgeBounded ==
    (op.name = "clean_cache" /\ AgeBoundedWhenSupplied(cleaning.older_than_days)) =>
        /\ \A f \in cleaning.removed : IsOlder(f, cleaning.older_than_days[1])
        /\ (opPc = "done" /\ opResult = "True") =>
                cleaning.tree.dirs \subseteq cache.dirs

\* C20: no traversal fails, whenever the other process deletes a file.
C20_TraversalsNeverFail ==
    /\ walk.pc # "raised"
    /\ opResult # "raised"

(* ------------------------------------------------------------------ *)
(* Termination of run_command (checked under SpecRun)                  *)

InCall == rc.pc \in {"loop", "running", "sleeping"}

AtMost(count, bound) == count <= (IF bound > 0 THEN bound ELSE 0)

\* the counts of the current call stay within the retry bound, and the call
\* leaves by a return statement
RunBounded ==
    /\ AtMost(Cardinality(Positions("start")), rc.retries)
    /\ AtMost(Cardinality(Positions("sleep")), rc.retries - 1)
    /\ AtMost(rc.attempt, rc.retries)
    /\ Returned => rc.result \in {"None", "stdout", "True"}

\* C21: every run_command call returns, after at most retries attempts and
\* at most retries - 1 delays, whatever the attempts' outcomes and whenever
\* the flag becomes set.
C21_EveryCallReturns ==
    /\ []RunBounded
    /\ InCall ~> Returned

C21_Witness ==
    /\ Returned
    /\ rc.retries = MaxRetries
    /\ Cardinality(Positions("start")) = rc.retries
    /\ Cardinality(Positions("sleep")) = rc.retries - 1
    /\ Positions("signal") # {}
    /\ ~rc.check_interruption

(* ------------------------------------------------------------------ *)
(* Order of the attempts (checked under Spec)                          *)

\* what the call itself did, in order
OwnEvents == SelectSeq(events, LAMBDA e : e.kind # "signal")

Succeeded == {i \in Positions("end") : events[i].outcome = "ok"}

\* C22: when attempts 1..k of a call failed by timeout or non-zero exit and
\* attempt k+1 succeeded, the call has started exactly the attempts 1..k+1 in
\* order, each after the failure of the one before was handled and the delay
\* slept, and has returned the captured text, or True in streamed mode,
\* starting no attempt after the success.
C22_SequentialUntilSuccess ==
    \A i \in Succeeded :
        LET k == events[i].n - 1
            own == OwnEvents
        IN
        /\ Len(own) = 3 * k + 2
        /\ \A a \in 1 .. k :
            /\ own[3 * a - 2] = Event("start", a, "none")
            /\ own[3 * a - 1].kind = "end"
            /\ own[3 * a - 1].n = a
            /\ own[3 * a - 1].outcome \in {"nonzero", "timeout"}
            /\ own[3 * a] = Event("sleep", RETRY_DELAY, "none")
        /\ own[3 * k + 1] = Event("start", k + 1, "none")
        /\ own[3 * k + 2] = Event("end", k + 1, "ok")
        /\ k + 1 <= rc.retries
        /\ rc.attempt = k + 1
        /\ Returned
        /\ IF rc.capture_output
           THEN rc.result = "stdout" /\ rc.stdout \in Outputs(rc.command, TRUE)
           ELSE rc.result = "True"

C22_Witness ==
    /\ Returned /\ rc.capture_output /\ rc.result = "stdout"
    /\ rc.retries = MaxRetries
    /\ rc.attempt = 2
    /\ \E i \in Succeeded : events[i].n = 2
    /\ Cardinality(Positions("sleep")) = 1

(* ------------------------------------------------------------------ *)
(* create_venv entered with the flag set (checked under Spec)          *)

CreateWithFlagSet ==
    op.name = "create_venv" /\ rc.pc # "idle" /\ SetBeforeCall

\* C23: a create_venv call entered with the flag set and uv installed never
\* attempts the creation command (run_command returns None with zero
\* attempts); when the path exists it is verified all the same, the probe is
\* spawned with the flag set, and create_venv returns True exactly when that
\* verification returned True.
C23_FlagSetCreateStillVerifies ==
    CreateWithFlagSet =>
        /\ hist.which = <<TRUE>>
        /\ rc.attempt = 0
        /\ Positions("start") = {}
        /\ Positions("sleep") = {}
        /\ Returned => rc.result = "None"
        /\ hist.spawned = vf.probes
        /\ opPc = "done" =>
            /\ hist.path_seen \in {"exists", "absent"}
            /\ hist.path_seen = "absent" => (vf.pc = "idle" /\ opResult = "False")
            /\ hist.path_seen = "exists" =>
                /\ vf.pc = "done"
                /\ vf.python_seen # "unchecked"
                /\ (IsRegularFile(vf.python_seen) /\ IsRegularFile(vf.pip_seen)) =>
                        (vf.probes = 1 /\ vf.probe # "none")
                /\ opResult = vf.result
                /\ opResult = "True" <=>
                        (/\ IsRegularFile(vf.python_seen)
                         /\ IsRegularFile(vf.pip_seen)
                         /\ vf.probe = "zero")

C23_Witness ==
    /\ CreateWithFlagSet /\ opPc = "done"
    /\ rc.retries >= 1
    /\ Positions("abort") # {}
    /\ Positions("start") = {}
    /\ hist.path_seen = "exists"
    /\ vf.probes = 1 /\ vf.probe = "zero"
    /\ hist.spawned = 1
    /\ opResult = "True"

====
